---- MODULE Spec2Model ----
(***************************************************************************)
(* State-machine model of the useLiveSession hook of                      *)
(* src/components/VoiceView.tsx (lines 301-531): the refs and React state  *)
(* of the hook, the connect() coroutine, the four session callbacks, the   *)
(* capture callback, the 'ended' listener of a playback node and the       *)
(* output clock; and of the visualizer effect of the VoiceView component   *)
(* (lines 25-177) while the view is shown, with the band energies its      *)
(* render() computes from the analyser's snapshot (lines 40-72); and of     *)
(* the mode switch of App (lines 238-282) with the auto-connect management *)
(* effect of VoiceView (lines 15-22).                                      *)
(*                                                                         *)
(* Time is counted in whole clock units.  An `await` of the source is a    *)
(* suspension point: the part of a handler before it and the part after it *)
(* are separate actions, and whatever the host can dispatch in between     *)
(* (another callback, a click, a clock advance) may run in between.        *)
(***************************************************************************)
EXTENDS Integers, Sequences, FiniteSets, TLC

\* ------------------------------------------------------------------ bounds
MaxConnects == 2    \* connect() calls in one run
MaxMsgs     == 3    \* messages delivered to onmessage in one run
MaxClock    == 1    \* largest value an output clock reaches

\* decodeAudioData is imported from ../utils/audio (line 299), which is not
\* part of the sources modelled here: that it may fail, the duration of the
\* buffer it yields and the time it takes are taken from the Audio Decoder
\* contract of the specification.
Durations == {1, 2} \* audioBuffer.duration of a decoded chunk, in clock units

NoEffect == <<>>    \* the visualizer effect has not run yet
NoBands == <<>>     \* no render() of a connected view has run yet

NullRef == 0        \* a ref holding null
NoNode  == <<>>     \* a node ref holding null (a node is named by a pair)

Ids == 1..MaxConnects

VARIABLES
    \* React state of the hook (lines 302-305)
    isConnected, isSpeaking, volume, error,
    \* refs (lines 308-324)
    inputContextRef, outputContextRef, scriptProcessorRef, sourceNodeRef,
    audioStreamRef, inputAnalyserRef, outputAnalyserRef,
    nextStartTimeRef, scheduledSourcesRef, sessionPromiseRef,
    \* environment
    apiKey,        \* process.env.API_KEY is set
    connPc,        \* position of each connect() call
    rel,           \* resource -> number of times it was released
    currentTime,   \* clock of each output context
    sess,          \* state of each remote session
    chunk,         \* log of the enqueues, one record per audio message
    nCtl,          \* messages handled without entering the audio branch
    \* history
    intrFresh,     \* an interrupt emptied a non-empty set and no enqueue was issued since
    lastStarted,   \* the last node started since the last interrupt or teardown
    hungUp,        \* disconnect() was called and connect() was not called since
    ghostNext,     \* nextStartTimeRef of the same run without the messages whose
                   \* decode is bound to fail
    \* outside the hook
    sendErrors,    \* "Send input error" lines logged by the catch of line 438
    \* the visualizer effect of VoiceView (lines 25-177)
    renderDeps,    \* the React state the running effect was started with
    rafPending,    \* a requestAnimationFrame(render) request is outstanding
    frames,        \* calls of render() so far
    dataArray,     \* the snapshot the last render() of a connected view read
    bands,         \* nBass, nMids and nTreble of that render()
    \* the mode of App and the auto-connect management effect (lines 15-22)
    isActive,      \* mode === AppMode.VOICE, the isActive prop of VoiceView
    effectDeps     \* the isActive and isConnected of the render whose effect
                   \* is installed: what its cleanup closes over

hookVars == <<isConnected, isSpeaking, volume, error, inputContextRef,
              outputContextRef, scriptProcessorRef, sourceNodeRef,
              audioStreamRef, inputAnalyserRef, outputAnalyserRef,
              nextStartTimeRef, scheduledSourcesRef, sessionPromiseRef>>

envVars == <<apiKey, connPc, rel, currentTime, sess, chunk, nCtl>>

histVars == <<intrFresh, lastStarted, hungUp, ghostNext>>

viewVars == <<renderDeps, rafPending, frames>>

bandVars == <<dataArray, bands>>

modeVars == <<isActive, effectDeps>>

outerVars == <<sendErrors, viewVars, bandVars, modeVars>>

vars == <<hookVars, envVars, histVars, outerVars>>

\* --------------------------------------------------------------- resources
InCtx(k)  == <<"inputContext", k>>
OutCtx(k) == <<"outputContext", k>>
Stream(k) == <<"stream", k>>
SrcNode(p) == <<"sourceNode", p>>
Proc(p)   == <<"processor", p>>

Acquired(r) == r \in DOMAIN rel
Held(r)     == Acquired(r) /\ rel[r] = 0

\* rel after releasing the resource a ref holds (nothing when the ref is null)
Release(f, ref, null, r) ==
    IF ref = null THEN f ELSE [f EXCEPT ![r] = @ + 1]

Acquire(f, r) == (r :> 0) @@ f

Max(a, b) == IF a >= b THEN a ELSE b

\* ------------------------------------------------------------ playback nodes
(***************************************************************************)
(* chunk[m] is the m-th message that entered the audio branch:             *)
(*   st         "decoding" | "failed" | "playing" | "stopped" | "ended",   *)
(*              or "doomed": decoding, and the decode is bound to fail     *)
(*   ctx        the output context the handler captured (line 450)         *)
(*   intr       message.serverContent.interrupted                          *)
(*   issueClock ctx.currentTime when the handler ran line 451              *)
(*   first      the enqueue is the first one issued after an interrupt     *)
(*   dirty      an interrupt or a teardown ran after the enqueue was issued*)
(*   endAt      the clock value at which the buffer has played to the end  *)
(* Fields that nothing reads any more are put back to their zero value.    *)
(* lastStarted is the last node started since the last interrupt or        *)
(* teardown: idx its chunk, when the argument of source.start(), until     *)
(* when + audioBuffer.duration, clean that no interrupt or teardown ran    *)
(* between its issue and its start.                                        *)
(***************************************************************************)
NewChunk(c, i, clk, f) ==
    [st |-> "decoding", ctx |-> c, intr |-> i, issueClock |-> clk,
     first |-> f, dirty |-> FALSE, endAt |-> 0]

NoStart == [idx |-> 0, when |-> 0, until |-> 0, clean |-> FALSE]

Started(c) == c.st \in {"playing", "stopped", "ended"}

Stopped(c) == [c EXCEPT !.st = "stopped", !.ctx = NullRef, !.endAt = 0]

\* source.stop() on every node of the set, errors swallowed (lines 340-342, 488-490)
StopAll(ch, S) ==
    [i \in DOMAIN ch |->
        IF i \in S /\ ch[i].st = "playing" THEN Stopped(ch[i]) ELSE ch[i]]

\* a reset of the timeline happened after the pending chunks were issued
MarkDirty(ch) ==
    [i \in DOMAIN ch |->
        IF ch[i].st = "decoding" THEN [ch[i] EXCEPT !.dirty = TRUE] ELSE ch[i]]

Pending == {m \in DOMAIN chunk : chunk[m].st = "decoding"}

\* the handlers suspended at the await whose decode is bound to fail
Doomed == {m \in DOMAIN chunk : chunk[m].st = "doomed"}

\* -------------------------------------------------------------------- Init
Init ==
    /\ isConnected = FALSE /\ isSpeaking = FALSE /\ volume = 0 /\ error = "null"
    /\ inputContextRef = NullRef /\ outputContextRef = NullRef
    /\ scriptProcessorRef = NoNode /\ sourceNodeRef = NoNode
    /\ audioStreamRef = NullRef
    /\ inputAnalyserRef = NullRef /\ outputAnalyserRef = NullRef
    /\ nextStartTimeRef = 0 /\ scheduledSourcesRef = {}
    /\ sessionPromiseRef = NullRef
    /\ apiKey \in BOOLEAN
    /\ connPc = [k \in Ids |-> "unused"]
    /\ rel = <<>>
    /\ currentTime = [k \in Ids |-> 0]
    /\ sess = [k \in Ids |-> "none"]
    /\ chunk = <<>>
    /\ nCtl = 0
    /\ intrFresh = FALSE /\ lastStarted = NoStart /\ hungUp = FALSE
    /\ ghostNext = 0
    /\ sendErrors = 0
    /\ renderDeps = NoEffect /\ rafPending = FALSE /\ frames = 0
    /\ dataArray = <<>> /\ bands = NoBands
    /\ isActive = FALSE /\ effectDeps = <<FALSE, FALSE>>

\* ----------------------------------------------------------------- cleanup
\* cleanup() without audioStreamRef.current = null (line 337)
CleanupKeepsStream ==
    /\ rel' = Release(Release(Release(Release(Release(rel,
                  scriptProcessorRef, NoNode, Proc(scriptProcessorRef)),
                  sourceNodeRef, NoNode, SrcNode(sourceNodeRef)),
                  audioStreamRef, NullRef, Stream(audioStreamRef)),
                  inputContextRef, NullRef, InCtx(inputContextRef)),
                  outputContextRef, NullRef, OutCtx(outputContextRef))
    /\ scriptProcessorRef' = NoNode
    /\ sourceNodeRef' = NoNode
    /\ audioStreamRef' = audioStreamRef
    /\ chunk' = MarkDirty(StopAll(chunk, scheduledSourcesRef))
    /\ scheduledSourcesRef' = {}
    /\ inputContextRef' = NullRef
    /\ outputContextRef' = NullRef
    /\ inputAnalyserRef' = NullRef
    /\ outputAnalyserRef' = NullRef
    /\ isConnected' = FALSE
    /\ isSpeaking' = FALSE
    /\ volume' = 0
    /\ nextStartTimeRef' = 0
    /\ intrFresh' = FALSE
    /\ lastStarted' = NoStart
    /\ ghostNext' = 0
    /\ UNCHANGED sessionPromiseRef

\* cleanup(), lines 326-361.  It leaves error and sessionPromiseRef alone.
Cleanup ==
    /\ rel' = Release(Release(Release(Release(Release(rel,
                  scriptProcessorRef, NoNode, Proc(scriptProcessorRef)),
                  sourceNodeRef, NoNode, SrcNode(sourceNodeRef)),
                  audioStreamRef, NullRef, Stream(audioStreamRef)),
                  inputContextRef, NullRef, InCtx(inputContextRef)),
                  outputContextRef, NullRef, OutCtx(outputContextRef))
    /\ scriptProcessorRef' = NoNode
    /\ sourceNodeRef' = NoNode
    /\ audioStreamRef' = NullRef
    /\ chunk' = MarkDirty(StopAll(chunk, scheduledSourcesRef))
    /\ scheduledSourcesRef' = {}
    /\ inputContextRef' = NullRef
    /\ outputContextRef' = NullRef
    /\ inputAnalyserRef' = NullRef
    /\ outputAnalyserRef' = NullRef
    /\ isConnected' = FALSE
    /\ isSpeaking' = FALSE
    /\ volume' = 0
    /\ nextStartTimeRef' = 0
    /\ intrFresh' = FALSE
    /\ lastStarted' = NoStart
    /\ ghostNext' = 0
    /\ UNCHANGED sessionPromiseRef

\* ----------------------------------------------------------------- connect
NextCall(k) == connPc[k] = "unused" /\ \A j \in Ids : j < k => connPc[j] # "unused"

\* connect() without a credential that tests the credential only after the
\* contexts are made
ConnectNoKeyLate(k) ==
    /\ UNCHANGED outerVars
    /\ NextCall(k) /\ ~apiKey
    /\ error' = "API Key missing"
    /\ inputContextRef' = k /\ inputAnalyserRef' = k
    /\ outputContextRef' = k /\ outputAnalyserRef' = k
    /\ rel' = Acquire(Acquire(rel, InCtx(k)), OutCtx(k))
    /\ connPc' = [connPc EXCEPT ![k] = "done"]
    /\ hungUp' = FALSE
    /\ UNCHANGED <<isConnected, isSpeaking, volume, scriptProcessorRef,
                   sourceNodeRef, audioStreamRef, nextStartTimeRef,
                   scheduledSourcesRef, sessionPromiseRef, apiKey,
                   currentTime, sess, chunk, nCtl, intrFresh, lastStarted,
                   ghostNext>>

\* connect() without a credential, lines 363-367
ConnectNoKey(k) ==
    /\ UNCHANGED outerVars
    /\ NextCall(k) /\ ~apiKey
    /\ error' = "API Key missing"
    /\ connPc' = [connPc EXCEPT ![k] = "done"]
    /\ hungUp' = FALSE
    /\ UNCHANGED <<isConnected, isSpeaking, volume, inputContextRef,
                   outputContextRef, scriptProcessorRef, sourceNodeRef,
                   audioStreamRef, inputAnalyserRef, outputAnalyserRef,
                   nextStartTimeRef, scheduledSourcesRef, sessionPromiseRef,
                   apiKey, rel, currentTime, sess, chunk, nCtl, intrFresh, lastStarted,
                   ghostNext>>

\* connect() up to the await of getUserMedia, lines 363-388
Connect(k) ==
    /\ UNCHANGED outerVars
    /\ NextCall(k) /\ apiKey
    /\ error' = "null"
    /\ inputContextRef' = k /\ inputAnalyserRef' = k
    /\ outputContextRef' = k /\ outputAnalyserRef' = k
    /\ rel' = Acquire(Acquire(rel, InCtx(k)), OutCtx(k))
    /\ connPc' = [connPc EXCEPT ![k] = "awaitMedia"]
    /\ hungUp' = FALSE
    /\ UNCHANGED <<isConnected, isSpeaking, volume, scriptProcessorRef,
                   sourceNodeRef, audioStreamRef, nextStartTimeRef,
                   scheduledSourcesRef, sessionPromiseRef,
                   apiKey, currentTime, sess, chunk, nCtl, intrFresh, lastStarted,
                   ghostNext>>

\* getUserMedia resolves: the rest of connect(), lines 389-510
MediaGranted(k) ==
    /\ UNCHANGED outerVars
    /\ connPc[k] = "awaitMedia"
    /\ audioStreamRef' = k
    /\ rel' = Acquire(rel, Stream(k))
    /\ sessionPromiseRef' = k
    /\ sess' = [sess EXCEPT ![k] = "connecting"]
    /\ connPc' = [connPc EXCEPT ![k] = "done"]
    /\ UNCHANGED <<isConnected, isSpeaking, volume, error, inputContextRef,
                   outputContextRef, scriptProcessorRef, sourceNodeRef,
                   inputAnalyserRef, outputAnalyserRef, nextStartTimeRef,
                   scheduledSourcesRef, apiKey, currentTime, chunk, nCtl,
                   intrFresh, lastStarted, hungUp, ghostNext>>

\* getUserMedia rejects: the catch of connect(), lines 512-516
MediaDenied(k) ==
    /\ UNCHANGED outerVars
    /\ connPc[k] = "awaitMedia"
    /\ error' = "Failed to connect microphone"
    /\ Cleanup
    /\ connPc' = [connPc EXCEPT ![k] = "done"]
    /\ UNCHANGED <<apiKey, currentTime, sess, nCtl, hungUp>>

\* -------------------------------------------------------- session callbacks
\* callbacks.onopen, lines 405-444
OnOpen(k) ==
    /\ UNCHANGED outerVars
    /\ sess[k] = "connecting"
    /\ sess' = [sess EXCEPT ![k] = "open"]
    /\ isConnected' = TRUE
    /\ IF inputContextRef = NullRef \/ audioStreamRef = NullRef
       THEN UNCHANGED <<sourceNodeRef, scriptProcessorRef, rel>>
       ELSE LET p == <<k, inputContextRef>> IN
            /\ sourceNodeRef' = p
            /\ scriptProcessorRef' = p
            /\ rel' = Acquire(Acquire(rel, SrcNode(p)), Proc(p))
    /\ UNCHANGED <<isSpeaking, volume, error, inputContextRef,
                   outputContextRef, audioStreamRef, inputAnalyserRef,
                   outputAnalyserRef, nextStartTimeRef, scheduledSourcesRef,
                   sessionPromiseRef, apiKey, connPc, currentTime, chunk,
                   nCtl, intrFresh, lastStarted, hungUp, ghostNext>>

\* processor.onaudioprocess, lines 422-440: the volume estimate stays >= 0.1
AudioProcess(p) ==
    /\ UNCHANGED outerVars
    /\ Held(Proc(p)) /\ Held(InCtx(p[2]))
    /\ volume' = 1
    /\ UNCHANGED <<isConnected, isSpeaking, error, inputContextRef,
                   outputContextRef, scriptProcessorRef, sourceNodeRef,
                   audioStreamRef, inputAnalyserRef, outputAnalyserRef,
                   nextStartTimeRef, scheduledSourcesRef, sessionPromiseRef,
                   envVars, intrFresh, lastStarted, hungUp, ghostNext>>

\* onaudioprocess whose catch of a failed send reports the error and tears
\* the session down
SendFailedTearsDown(p) ==
    /\ Held(Proc(p)) /\ Held(InCtx(p[2]))
    /\ sessionPromiseRef # NullRef
    /\ sendErrors' = sendErrors + 1
    /\ UNCHANGED <<viewVars, bandVars, modeVars>>
    /\ error' = "Connection error. Please try again."
    /\ Cleanup
    /\ UNCHANGED <<apiKey, connPc, currentTime, sess, nCtl, hungUp>>

\* processor.onaudioprocess, lines 422-440, for a block whose forwarding
\* fails: the session promise rejects or sendRealtimeInput throws, and the
\* catch of line 438 logs it
SendFailed(p) ==
    /\ Held(Proc(p)) /\ Held(InCtx(p[2]))
    /\ sessionPromiseRef # NullRef
    /\ volume' = 1
    /\ sendErrors' = sendErrors + 1
    /\ UNCHANGED <<viewVars, bandVars, modeVars>>
    /\ UNCHANGED <<isConnected, isSpeaking, error, inputContextRef,
                   outputContextRef, scriptProcessorRef, sourceNodeRef,
                   audioStreamRef, inputAnalyserRef, outputAnalyserRef,
                   nextStartTimeRef, scheduledSourcesRef, sessionPromiseRef,
                   envVars, histVars>>

\* the interrupted branch run without testing the interrupted flag
InterruptPartAlways(intr, s) ==
    [set |-> {}, next |-> 0, speaking |-> FALSE,
     ch |-> MarkDirty(StopAll(s.ch, s.set)),
     fresh |-> (s.fresh \/ s.set # {}),
     last |-> NoStart]

\* the interrupted branch without scheduledSourcesRef.current.clear()
InterruptPartNoClear(intr, s) ==
    IF intr
    THEN [set |-> s.set, next |-> 0, speaking |-> FALSE,
          ch |-> MarkDirty(StopAll(s.ch, s.set)),
          fresh |-> (s.fresh \/ s.set # {}),
          last |-> NoStart]
    ELSE s

\* the interrupted branch of onmessage, lines 486-494, on the playback state
\* s = [set, next, speaking, ch, fresh, last]
InterruptPart(intr, s) ==
    IF intr
    THEN [set |-> {}, next |-> 0, speaking |-> FALSE,
          ch |-> MarkDirty(StopAll(s.ch, s.set)),
          fresh |-> (s.fresh \/ s.set # {}),
          last |-> NoStart]
    ELSE s

\* nextStartTimeRef.current after line 451
IssueTimeNoMax(next, clk) == clk

IssueTime(next, clk) == Max(next, clk)

\* callbacks.onmessage up to the await of decodeAudioData (lines 445-454), or
\* all of it when the audio branch is skipped (lines 445-448, 486-495)
OnMessage(k, audio, intr) ==
    /\ UNCHANGED outerVars
    /\ sess[k] = "open"
    /\ IF audio /\ outputContextRef # NullRef
       THEN /\ isSpeaking' = TRUE
            /\ nextStartTimeRef' =
                   IssueTime(nextStartTimeRef, currentTime[outputContextRef])
            /\ chunk' = Append(chunk,
                   NewChunk(outputContextRef, intr,
                            currentTime[outputContextRef], intrFresh))
            /\ intrFresh' = FALSE
            /\ ghostNext' = IssueTime(ghostNext, currentTime[outputContextRef])
            /\ UNCHANGED <<scheduledSourcesRef, nCtl, lastStarted>>
       ELSE /\ nCtl' = nCtl + 1
            /\ LET s == InterruptPart(intr,
                          [set |-> scheduledSourcesRef,
                           next |-> nextStartTimeRef,
                           speaking |-> isSpeaking, ch |-> chunk,
                           fresh |-> intrFresh,
                           last |-> lastStarted]) IN
               /\ lastStarted' = s.last
               /\ ghostNext' = (IF intr THEN 0 ELSE ghostNext)
               /\ scheduledSourcesRef' = s.set
               /\ nextStartTimeRef' = s.next
               /\ isSpeaking' = s.speaking
               /\ chunk' = s.ch
               /\ intrFresh' = s.fresh
    /\ UNCHANGED <<isConnected, volume, error, inputContextRef,
                   outputContextRef, scriptProcessorRef, sourceNodeRef,
                   audioStreamRef, inputAnalyserRef, outputAnalyserRef,
                   sessionPromiseRef, apiKey, connPc, rel, currentTime, sess,
                   hungUp>>

\* callbacks.onmessage up to the await (lines 445-454) for an audio message
\* without the interrupted flag whose payload decodeAudioData will reject
OnMessageDoomed(k) ==
    /\ UNCHANGED outerVars
    /\ sess[k] = "open"
    /\ outputContextRef # NullRef
    /\ isSpeaking' = TRUE
    /\ nextStartTimeRef' =
           IssueTime(nextStartTimeRef, currentTime[outputContextRef])
    /\ chunk' = Append(chunk,
           [NewChunk(outputContextRef, FALSE, 0, FALSE) EXCEPT !.st = "doomed"])
    /\ intrFresh' = FALSE
    /\ UNCHANGED <<isConnected, volume, error, inputContextRef,
                   outputContextRef, scriptProcessorRef, sourceNodeRef,
                   audioStreamRef, inputAnalyserRef, outputAnalyserRef,
                   scheduledSourcesRef, sessionPromiseRef, apiKey, connPc,
                   rel, currentTime, sess, nCtl, lastStarted, hungUp,
                   ghostNext>>

\* the node of chunk c after source.start(nextStartTimeRef.current), lines
\* 461-480: a start time in the past plays the buffer at once
StartNode(c, d) ==
    [c EXCEPT !.st = "playing", !.intr = FALSE, !.issueClock = 0,
              !.first = FALSE, !.dirty = FALSE,
              !.endAt = Max(nextStartTimeRef, currentTime[c.ctx]) + d]

\* onmessage after the await: decodeAudioData resolved with a buffer of
\* duration d (lines 461-480), then the interrupted branch (lines 486-494)
DecodeDone(m, d) ==
    /\ UNCHANGED outerVars
    /\ m \in Pending
    /\ LET s == InterruptPart(chunk[m].intr,
                  [set |-> scheduledSourcesRef \cup {m},
                   next |-> nextStartTimeRef + d,
                   speaking |-> isSpeaking,
                   ch |-> [chunk EXCEPT ![m] = StartNode(chunk[m], d)],
                   fresh |-> intrFresh,
                   last |-> [idx |-> m, when |-> nextStartTimeRef,
                             until |-> nextStartTimeRef + d,
                             clean |-> ~chunk[m].dirty]]) IN
       /\ lastStarted' = s.last
       /\ ghostNext' = (IF chunk[m].intr THEN 0 ELSE ghostNext + d)
       /\ scheduledSourcesRef' = s.set
       /\ nextStartTimeRef' = s.next
       /\ isSpeaking' = s.speaking
       /\ chunk' = s.ch
       /\ intrFresh' = s.fresh
    /\ UNCHANGED <<isConnected, volume, error, inputContextRef,
                   outputContextRef, scriptProcessorRef, sourceNodeRef,
                   audioStreamRef, inputAnalyserRef, outputAnalyserRef,
                   sessionPromiseRef, apiKey, connPc, rel, currentTime, sess,
                   nCtl, hungUp>>

\* the record of a chunk whose decode failed
FailedChunk(c) ==
    [c EXCEPT !.st = "failed", !.ctx = NullRef, !.intr = FALSE,
              !.issueClock = 0, !.first = FALSE, !.dirty = FALSE]

\* onmessage after the await: decodeAudioData rejected, the catch (lines
\* 481-483), then the interrupted branch (lines 486-494)
DecodeFailed(m) ==
    /\ UNCHANGED outerVars
    /\ m \in Pending \cup Doomed
    /\ LET s == InterruptPart(chunk[m].intr,
                  [set |-> scheduledSourcesRef,
                   next |-> nextStartTimeRef,
                   speaking |-> isSpeaking,
                   ch |-> [chunk EXCEPT ![m] = FailedChunk(chunk[m])],
                   fresh |-> intrFresh,
                   last |-> lastStarted]) IN
       /\ lastStarted' = s.last
       /\ ghostNext' = (IF chunk[m].intr THEN 0 ELSE ghostNext)
       /\ scheduledSourcesRef' = s.set
       /\ nextStartTimeRef' = s.next
       /\ isSpeaking' = s.speaking
       /\ chunk' = s.ch
       /\ intrFresh' = s.fresh
    /\ UNCHANGED <<isConnected, volume, error, inputContextRef,
                   outputContextRef, scriptProcessorRef, sourceNodeRef,
                   audioStreamRef, inputAnalyserRef, outputAnalyserRef,
                   sessionPromiseRef, apiKey, connPc, rel, currentTime, sess,
                   nCtl, hungUp>>

\* the playback of node m is over: it was stopped, or its context is running
\* and its buffer has played to the end
PlaybackOver(m) ==
    \/ chunk[m].st = "stopped"
    \/ /\ chunk[m].st = "playing"
       /\ Held(OutCtx(chunk[m].ctx))
       /\ currentTime[chunk[m].ctx] >= chunk[m].endAt

\* the 'ended' listener of node m, lines 471-476
Ended(m) ==
    /\ UNCHANGED outerVars
    /\ m \in DOMAIN chunk /\ PlaybackOver(m)
    /\ chunk' = [chunk EXCEPT ![m].st = "ended", ![m].ctx = NullRef,
                              ![m].endAt = 0]
    /\ scheduledSourcesRef' = scheduledSourcesRef \ {m}
    /\ isSpeaking' = IF scheduledSourcesRef \ {m} = {} THEN FALSE ELSE isSpeaking
    /\ UNCHANGED <<isConnected, volume, error, inputContextRef,
                   outputContextRef, scriptProcessorRef, sourceNodeRef,
                   audioStreamRef, inputAnalyserRef, outputAnalyserRef,
                   nextStartTimeRef, sessionPromiseRef, apiKey, connPc, rel,
                   currentTime, sess, nCtl, intrFresh, lastStarted, hungUp,
                   ghostNext>>

\* callbacks.onclose, lines 496-499
OnClose(k) ==
    /\ UNCHANGED outerVars
    /\ sess[k] \in {"connecting", "open", "errored"}
    /\ sess' = [sess EXCEPT ![k] = "closed"]
    /\ Cleanup
    /\ UNCHANGED <<error, apiKey, connPc, currentTime, nCtl, hungUp>>

\* callbacks.onerror, lines 500-504
OnError(k) ==
    /\ UNCHANGED outerVars
    /\ sess[k] \in {"connecting", "open"}
    /\ sess' = [sess EXCEPT ![k] = "errored"]
    /\ error' = "Connection error. Please try again."
    /\ Cleanup
    /\ UNCHANGED <<apiKey, connPc, currentTime, nCtl, hungUp>>

\* disconnect(), line 524: cleanup itself
Disconnect ==
    /\ UNCHANGED outerVars
    /\ Cleanup
    /\ hungUp' = TRUE
    /\ UNCHANGED <<error, apiKey, connPc, currentTime, sess, nCtl>>

\* a handler can still read the clock of output context k
ClockRead(k) ==
    \/ outputContextRef = k
    \/ \E m \in DOMAIN chunk : chunk[m].ctx = k

\* ctx.currentTime of a running output context advances (modelled while some
\* handler can still read it)
Tick(k) ==
    /\ UNCHANGED outerVars
    /\ Held(OutCtx(k))
    /\ ClockRead(k)
    /\ currentTime' = [currentTime EXCEPT ![k] = @ + 1]
    /\ UNCHANGED <<hookVars, apiKey, connPc, rel, sess, chunk, nCtl,
                   intrFresh, lastStarted, hungUp, ghostNext>>

\* ------------------------------------------------------------- VoiceView
\* what the visualizer effect depends on, line 177: isConnected, isSpeaking
\* and the analysers object, which the hook builds anew on every render
\* (lines 525-528), so that every change of the hook's React state re-runs
\* the effect
Deps == <<isConnected, isSpeaking, volume, error>>

\* the visualizer effect re-runs, lines 25-177: the cleanup of the previous
\* run cancels its frame request (line 176), then render() is called (line
\* 174) and requests a frame at its end (line 171) unless it throws before
RunEffect(throws) ==
    /\ renderDeps # Deps
    /\ renderDeps' = Deps
    /\ frames' = frames + 1
    /\ rafPending' = ~throws
    /\ UNCHANGED <<hookVars, envVars, histVars, sendErrors, bandVars,
                   modeVars>>

\* the browser runs the requested frame: render(), lines 31-172, which
\* requests the next frame at its end (line 171) unless it throws before
RenderTick(throws) ==
    /\ rafPending
    /\ frames' = frames + 1
    /\ rafPending' = ~throws
    /\ UNCHANGED <<hookVars, envVars, histVars, sendErrors, renderDeps,
                   bandVars, modeVars>>

\* the analysers of both contexts are created with fftSize = 512 (lines 377
\* and 383); frequencyBinCount, line 45, is half of it
fftSize == 512
frequencyBinCount == fftSize \div 2

\* the snapshots getByteFrequencyData (line 47) is taken to yield: one byte
\* per bin, the bins below a cut at one level and the others at another
Levels == {0, 128, 255}
Cuts == {0, 32, 128, 256}
Snapshots ==
    {[i \in 1..frequencyBinCount |-> IF i <= c THEN a ELSE b] :
         a \in Levels, b \in Levels, c \in Cuts}

\* what bin i adds to the three sums, lines 59-62:
\* i < range * 0.1 is 10 * i < range, i < range * 0.5 is 2 * i < range
BinSums(data, i) ==
    LET val == data[i + 1]
        range == Len(data)
    IN  IF 10 * i < range THEN [bass |-> val, mids |-> 0, treble |-> 0]
        ELSE IF 2 * i < range THEN [bass |-> 0, mids |-> val, treble |-> 0]
        ELSE [bass |-> 0, mids |-> 0, treble |-> val]

\* the sums the loop of lines 58-63 adds up over the bins lo .. hi - 1; the
\* additions are grouped by halves, which changes no sum
RECURSIVE BandSums(_, _, _)
BandSums(data, lo, hi) ==
    IF hi <= lo THEN [bass |-> 0, mids |-> 0, treble |-> 0]
    ELSE IF hi = lo + 1 THEN BinSums(data, lo)
    ELSE LET mid == (lo + hi) \div 2
             l == BandSums(data, lo, mid)
             r == BandSums(data, mid, hi)
         IN  [bass |-> l.bass + r.bass, mids |-> l.mids + r.mids,
              treble |-> l.treble + r.treble]

\* sum / (range * tenths / 10) / 255 as an exact fraction, lines 64-66 and
\* 70-72; a sum that was not divided (no bins, line 56) is only over 255
Normalized(sum, range, tenths) ==
    IF range > 0 THEN [num |-> 10 * sum, den |-> range * tenths * 255]
    ELSE [num |-> sum, den |-> 255]

\* nBass, nMids and nTreble of a snapshot, lines 50-72
BandEnergies(data) ==
    LET sums == BandSums(data, 0, Len(data))
        range == Len(data)
    IN  [nBass   |-> Normalized(sums.bass, range, 1),
         nMids   |-> Normalized(sums.mids, range, 4),
         nTreble |-> Normalized(sums.treble, range, 5)]

\* the requested frame runs render(), lines 31-172, without throwing, the
\* active analyser yielding data: render closes over the isConnected and
\* isSpeaking its effect was started with and reads the analyser refs as they
\* are now; a null analyser leaves the snapshot empty (lines 42-48), and a
\* view that is not connected computes no bands
RenderBands(data) ==
    /\ rafPending
    /\ frames' = frames + 1
    /\ rafPending' = TRUE
    /\ IF renderDeps[1]
           THEN LET activeAnalyser == IF renderDeps[2] THEN outputAnalyserRef
                                      ELSE inputAnalyserRef
                IN  /\ dataArray' = (IF activeAnalyser # NullRef THEN data
                                     ELSE <<>>)
                    /\ bands' = BandEnergies(dataArray')
           ELSE UNCHANGED bandVars
    /\ UNCHANGED <<hookVars, envVars, histVars, sendErrors, renderDeps,
                   modeVars>>

\* a click on a button of the mode switcher of App, lines 252 and 263:
\* setMode, and VoiceView is rendered with isActive = (mode === AppMode.VOICE)
\* (line 281)
SetMode(active) ==
    /\ isActive # active
    /\ isActive' = active
    /\ UNCHANGED <<hookVars, envVars, histVars, sendErrors, viewVars,
                   bandVars, effectDeps>>

\* React commits a render of VoiceView in which isActive or isConnected
\* differs from the render whose auto-connect management effect is installed
\* (lines 15-22; cleanup, and so disconnect, keeps its identity, line 361):
\* the cleanup of the installed effect runs with the isActive and isConnected
\* it closed over and calls disconnect() if they are false and true, then the
\* effect of the committed render is installed
AutoConnectEffect ==
    /\ effectDeps # <<isActive, isConnected>>
    /\ effectDeps' = <<isActive, isConnected>>
    /\ IF ~effectDeps[1] /\ effectDeps[2]
           THEN /\ Cleanup
                /\ hungUp' = TRUE
                /\ UNCHANGED <<error, apiKey, connPc, currentTime, sess, nCtl>>
           ELSE UNCHANGED <<hookVars, envVars, histVars>>
    /\ UNCHANGED <<isActive, sendErrors, viewVars, bandVars>>

\* ------------------------------------------------------------ the bounds
\* another message may be delivered
MsgRoom(n) == Len(chunk) + nCtl < n

\* the clock of output context k may advance
ClockRoom(k) == currentTime[k] < MaxClock

\* --------------------------------------------------------- specifications
\* Spec: the runs with one connect() call
Single == {1}

Next ==
    \/ \E k \in Single : ConnectNoKey(k)
    \/ \E k \in Single : Connect(k)
    \/ \E k \in Single : MediaGranted(k)
    \/ \E k \in Single : MediaDenied(k)
    \/ \E k \in Single : OnOpen(k)
    \/ \E p \in Single \X Single : AudioProcess(p)
    \/ \E k \in Single, audio \in BOOLEAN, intr \in BOOLEAN :
          MsgRoom(MaxMsgs) /\ OnMessage(k, audio, intr)
    \/ \E m \in 1..MaxMsgs, d \in Durations : DecodeDone(m, d)
    \/ \E m \in 1..MaxMsgs : DecodeFailed(m)
    \/ \E m \in 1..MaxMsgs : Ended(m)
    \/ \E k \in Single : OnClose(k)
    \/ \E k \in Single : OnError(k)
    \/ Disconnect
    \/ \E k \in Single : ClockRoom(k) /\ Tick(k)

Spec == Init /\ [][Next]_vars

\* SpecCalls: the runs with up to MaxConnects connect() calls and few messages
MaxMsgsCalls == 1

NextCalls ==
    \/ \E k \in Ids : ConnectNoKey(k)
    \/ \E k \in Ids : Connect(k)
    \/ \E k \in Ids : MediaGranted(k)
    \/ \E k \in Ids : MediaDenied(k)
    \/ \E k \in Ids : OnOpen(k)
    \/ \E p \in Ids \X Ids : AudioProcess(p)
    \/ \E k \in Ids, audio \in BOOLEAN, intr \in BOOLEAN :
          MsgRoom(MaxMsgsCalls) /\ OnMessage(k, audio, intr)
    \/ \E m \in 1..MaxMsgsCalls, d \in Durations : DecodeDone(m, d)
    \/ \E m \in 1..MaxMsgsCalls : DecodeFailed(m)
    \/ \E m \in 1..MaxMsgsCalls : Ended(m)
    \/ \E k \in Ids : OnClose(k)
    \/ \E k \in Ids : OnError(k)
    \/ Disconnect
    \/ \E k \in Ids : ClockRoom(k) /\ Tick(k)

SpecCalls == Init /\ [][NextCalls]_vars

\* the steps of the hook for the connect() calls I and at most n messages
Step(I, n) ==
    \/ \E k \in I : ConnectNoKey(k)
    \/ \E k \in I : Connect(k)
    \/ \E k \in I : MediaGranted(k)
    \/ \E k \in I : MediaDenied(k)
    \/ \E k \in I : OnOpen(k)
    \/ \E p \in I \X I : AudioProcess(p)
    \/ \E k \in I, audio \in BOOLEAN, intr \in BOOLEAN :
          MsgRoom(n) /\ OnMessage(k, audio, intr)
    \/ \E m \in 1..n, d \in Durations : DecodeDone(m, d)
    \/ \E m \in 1..n : DecodeFailed(m)
    \/ \E m \in 1..n : Ended(m)
    \/ \E k \in I : OnClose(k)
    \/ \E k \in I : OnError(k)
    \/ Disconnect
    \/ \E k \in I : ClockRoom(k) /\ Tick(k)

\* SpecSend: the runs with one connect() call, few messages and captured
\* blocks whose forwarding fails
MaxMsgsSend == 2
MaxSendErrors == 1

NextSend ==
    \/ Step(Single, MaxMsgsSend)
    \/ \E p \in Single \X Single :
          sendErrors < MaxSendErrors /\ SendFailed(p)

SpecSend == Init /\ [][NextSend]_vars

\* SpecRender: the runs with one connect() call, few messages and the
\* visualizer of VoiceView
MaxMsgsRender == 1
MaxFrames == 3

NextRender ==
    \/ Step(Single, MaxMsgsRender)
    \/ \E throws \in BOOLEAN : frames < MaxFrames /\ RunEffect(throws)
    \/ \E throws \in BOOLEAN : frames < MaxFrames /\ RenderTick(throws)

SpecRender == Init /\ [][NextRender]_vars

\* SpecBands: the runs with one connect() call, few messages and the frames
\* of the visualizer with the snapshots they read
MaxMsgsBands == 1
MaxFramesBands == 3

NextBands ==
    \/ Step(Single, MaxMsgsBands)
    \/ frames < MaxFramesBands /\ RunEffect(FALSE)
    \/ \E data \in Snapshots : frames < MaxFramesBands /\ RenderBands(data)

SpecBands == Init /\ [][NextBands]_vars

\* SpecView: the runs with one connect() call and few messages in which the
\* user switches between the modes of App; the Connect and the hang-up
\* button exist only while VoiceView is active (line 179)
MaxMsgsView == 1

NextView ==
    \/ \E k \in Single : isActive /\ ConnectNoKey(k)
    \/ \E k \in Single : isActive /\ Connect(k)
    \/ \E k \in Single : MediaGranted(k)
    \/ \E k \in Single : MediaDenied(k)
    \/ \E k \in Single : OnOpen(k)
    \/ \E p \in Single \X Single : AudioProcess(p)
    \/ \E k \in Single, audio \in BOOLEAN, intr \in BOOLEAN :
          MsgRoom(MaxMsgsView) /\ OnMessage(k, audio, intr)
    \/ \E m \in 1..MaxMsgsView, d \in Durations : DecodeDone(m, d)
    \/ \E m \in 1..MaxMsgsView : DecodeFailed(m)
    \/ \E m \in 1..MaxMsgsView : Ended(m)
    \/ \E k \in Single : OnClose(k)
    \/ \E k \in Single : OnError(k)
    \/ isActive /\ Disconnect
    \/ \E k \in Single : ClockRoom(k) /\ Tick(k)
    \/ \E active \in BOOLEAN : SetMode(active)
    \/ AutoConnectEffect

SpecView == Init /\ [][NextView]_vars

\* SpecFate: the runs with one connect() call in which the fate of some
\* decodes is fixed when their message arrives
NextFate ==
    \/ Next
    \/ \E k \in Single : MsgRoom(MaxMsgs) /\ OnMessageDoomed(k)

SpecFate == Init /\ [][NextFate]_vars

\* -------------------------------------------------------------- step kinds
\* a step that runs cleanup()
CleanupStep ==
    \/ Disconnect
    \/ \E k \in Ids : OnClose(k) \/ OnError(k) \/ MediaDenied(k)

\* a step that issues an enqueue: onmessage enters the audio branch
EnqueueIssue ==
    \E k \in Ids, intr \in BOOLEAN :
        outputContextRef # NullRef /\ OnMessage(k, TRUE, intr)

\* a step that handles a message without entering the audio branch and runs
\* the interrupted branch
InterruptOnly ==
    \E k \in Ids, audio \in BOOLEAN :
        ~(audio /\ outputContextRef # NullRef) /\ OnMessage(k, audio, TRUE)

\* the handler of chunk m resumes after its await
Resumes(m) == DecodeFailed(m) \/ \E d \in Durations : DecodeDone(m, d)

\* the handler of chunk m resumes and calls source.start()
Starts(m) == \E d \in Durations : DecodeDone(m, d)

\* a step that completes the handling of a message with interrupted = true
InterruptDone ==
    \/ InterruptOnly
    \/ \E m \in Pending : chunk[m].intr /\ Resumes(m)

\* ------------------------------------------------------------------ claims
Idle ==
    /\ ~isConnected
    /\ \A k \in Ids : connPc[k] # "awaitMedia" /\ sess[k] # "connecting"

NoNodeScheduled ==
    /\ scheduledSourcesRef = {}
    /\ \A m \in DOMAIN chunk : chunk[m].st # "playing"

\* C1: every resource connect() acquired is released exactly once: none is
\* released twice, and none is still held once the controller is back in Idle.
C1_ReleasedExactlyOnce ==
    /\ \A r \in DOMAIN rel : rel[r] <= 1
    /\ Idle => (NoNodeScheduled /\ \A r \in DOMAIN rel : rel[r] = 1)

\* C2: when a chunk is started right after another with no interrupt or
\* teardown since either was issued, the other is an earlier chunk, this one
\* starts no earlier than the other ends, and exactly when it ends if the
\* other's start time was not yet past when this one was issued.
C2_Gapless ==
    [][\A m \in Pending :
         (/\ Starts(m)
          /\ lastStarted.idx # 0
          /\ lastStarted.clean /\ ~chunk[m].dirty)
         => /\ lastStarted.idx < m
            /\ nextStartTimeRef >= lastStarted.until
            /\ (lastStarted.when >= chunk[m].issueClock
                    => nextStartTimeRef = lastStarted.until)]_vars

\* C3: whenever no handler is suspended, isSpeaking is true iff the set of
\* scheduled playback nodes is non-empty.
C3_SpeakingIffScheduled ==
    Pending = {} => (isSpeaking <=> scheduledSourcesRef # {})

\* C4: the start time passed to source.start() is at or after the clock of the
\* node's output context at the moment of the call.
C4_NeverInThePast ==
    [][\A m \in Pending :
         Starts(m) => nextStartTimeRef >= currentTime[chunk[m].ctx]]_vars

\* C5: nextStartTime decreases only in a step that runs the interrupted branch
\* or cleanup(), and then to zero; every other step leaves it greater than or
\* equal to its previous value.
C5_TimelineMonotone ==
    [][\/ nextStartTimeRef' >= nextStartTimeRef
       \/ nextStartTimeRef' = 0 /\ (InterruptDone \/ CleanupStep)]_vars

C5_Witness ==
    /\ intrFresh /\ nextStartTimeRef = 0
    /\ \E m \in DOMAIN chunk : chunk[m].st = "stopped"

\* the playback state a handled interrupt leaves
PostInterrupt ==
    scheduledSourcesRef = {} /\ ~isSpeaking /\ nextStartTimeRef = 0

\* C6: a handled message with interrupted = true leaves the scheduled set
\* empty and isSpeaking false, and handled in the state an interrupt leaves it
\* changes nothing of the hook's state.
C6_InterruptEmpties ==
    [][InterruptDone =>
         /\ scheduledSourcesRef' = {} /\ ~isSpeaking'
         /\ (PostInterrupt => UNCHANGED hookVars)]_vars

C6_Witness ==
    /\ intrFresh /\ PostInterrupt
    /\ Cardinality({m \in DOMAIN chunk : chunk[m].st = "stopped"}) >= 2

cleanupVars ==
    <<isConnected, isSpeaking, volume, inputContextRef, outputContextRef,
      scriptProcessorRef, sourceNodeRef, audioStreamRef, inputAnalyserRef,
      outputAnalyserRef, nextStartTimeRef, scheduledSourcesRef>>

\* the state cleanup() leaves
PostCleanup ==
    cleanupVars = <<FALSE, FALSE, 0, NullRef, NullRef, NoNode, NoNode,
                    NullRef, NullRef, NullRef, 0, {}>>

\* C8: cleanup() leaves every ref null, the set empty, nextStartTime zero and
\* the three flags reset, and run in the state it leaves it changes nothing:
\* no ref, flag, node, nor a second release of any resource.
C8_CleanupIdempotent ==
    [][CleanupStep =>
         /\ PostCleanup'
         /\ (PostCleanup => UNCHANGED <<cleanupVars, rel, chunk>>)]_vars

C8_Witness ==
    /\ hungUp /\ PostCleanup
    /\ \E k \in Ids : sess[k] = "closed"
    /\ \E r \in DOMAIN rel : rel[r] = 1

\* C9: from disconnect() until the next connect() no playback node is
\* scheduled or playing and no stream or audio context is held.
C9_DisconnectReleasesAll ==
    hungUp =>
        /\ NoNodeScheduled
        /\ \A k \in Ids :
              ~Held(Stream(k)) /\ ~Held(InCtx(k)) /\ ~Held(OutCtx(k))

\* C10: while the handler of a chunk is suspended at its await, no other
\* handler that writes the scheduled set or the timeline runs: no enqueue is
\* issued, no other chunk's handler resumes, no interrupt and no cleanup().
C10_EnqueueAtomic ==
    [][\A m \in Pending :
         ~(\/ EnqueueIssue
           \/ InterruptOnly
           \/ CleanupStep
           \/ \E n \in Pending \ {m} : Resumes(n))]_vars

\* C11: a chunk whose decode fails leaves the connection state, the session
\* and the scheduled set as they were, both when it is received and when it
\* is dropped, and every chunk that arrived after the failed ones is started
\* at the time it would be started at had the failed ones never arrived.
C11_FailedChunkDropped ==
    [][/\ \A k \in Ids : OnMessageDoomed(k) =>
              UNCHANGED <<isConnected, sess, scheduledSourcesRef>>
       /\ \A m \in Doomed : DecodeFailed(m) =>
              UNCHANGED <<isConnected, sess, scheduledSourcesRef>>
       /\ \A m \in Pending :
              (/\ Starts(m)
               /\ \A f \in DOMAIN chunk :
                      chunk[f].st \in {"doomed", "failed"} => f < m)
              => nextStartTimeRef = ghostNext]_vars

\* C12: without a credential, connect() sets the error to "API Key missing"
\* and the hook stays idle: isConnected false, no audio context made, no
\* device access requested, no remote session opened.
C12_NoKeyNoConnect ==
    ~apiKey =>
        /\ ~isConnected
        /\ rel = <<>>
        /\ inputContextRef = NullRef /\ outputContextRef = NullRef
        /\ inputAnalyserRef = NullRef /\ outputAnalyserRef = NullRef
        /\ audioStreamRef = NullRef /\ sessionPromiseRef = NullRef
        /\ \A k \in Ids : connPc[k] # "awaitMedia" /\ sess[k] = "none"
        /\ (\E k \in Ids : connPc[k] = "done") => error = "API Key missing"

C12_Witness ==
    ~apiKey /\ connPc[1] = "done" /\ error = "API Key missing"

\* C13: when getUserMedia rejects, the catch of connect() leaves an error
\* string set, no remote session opened by the call, both contexts the call
\* made closed and the analyser refs null, and isConnected false.
C13_DeniedReleasesAll ==
    [][\A k \in Ids : MediaDenied(k) =>
          /\ error' # "null"
          /\ sess'[k] = "none"
          /\ rel'[InCtx(k)] = 1 /\ rel'[OutCtx(k)] = 1
          /\ inputAnalyserRef' = NullRef /\ outputAnalyserRef' = NullRef
          /\ ~isConnected']_vars

\* the resources acquired so far are all released
AllReleased == \A r \in DOMAIN rel : rel[r] >= 1

\* C14: when the session reports an error, and when forwarding a captured
\* block to it fails, an error string is set and cleanup() has run: every ref
\* null, the flags reset, every acquired resource released.
C14_TransportErrorTearsDown ==
    [][(\/ \E k \in Ids : OnError(k)
        \/ \E p \in Ids \X Ids : SendFailed(p))
       => (error' # "null" /\ PostCleanup' /\ AllReleased')]_vars

\* C15: a failed forwarding of a captured block changes nothing but the
\* volume estimate and the log: connection state, session, scheduled set,
\* timeline, refs and error stay as they were, and the processor and its
\* context stay live, so later blocks are still captured.
C15_SendFailureContained ==
    [][\A p \in Ids \X Ids : SendFailed(p) =>
          /\ UNCHANGED <<isConnected, isSpeaking, error, inputContextRef,
                         outputContextRef, scriptProcessorRef, sourceNodeRef,
                         audioStreamRef, inputAnalyserRef, outputAnalyserRef,
                         nextStartTimeRef, scheduledSourcesRef,
                         sessionPromiseRef, sess, rel, chunk>>
          /\ Held(Proc(p))' /\ Held(InCtx(p[2]))']_vars

C15_Witness ==
    /\ sendErrors >= 1 /\ volume = 1
    /\ isConnected /\ error = "null"
    /\ scheduledSourcesRef # {}
    /\ Held(Proc(scriptProcessorRef))

\* C16: disconnect() called while the hook is idle changes no state of the
\* hook: no ref, not the scheduled set, nextStartTime, isConnected,
\* isSpeaking, volume nor error.
C16_IdleDisconnectNoOp ==
    [][(Idle /\ Disconnect) => UNCHANGED hookVars]_vars

\* C17: a render tick that raises an exception still leaves a frame request
\* outstanding, so the loop goes on.
C17_RenderLoopSurvives ==
    [][RenderTick(TRUE) => rafPending']_vars

\* C18: a message with neither an audio payload nor the interrupted flag
\* changes no state of the hook, and neither does an audio message without
\* the flag that arrives when there is no output context.
C18_OtherMessageIgnored ==
    [][\A k \in Ids :
          (\/ OnMessage(k, FALSE, FALSE)
           \/ outputContextRef = NullRef /\ OnMessage(k, TRUE, FALSE))
          => UNCHANGED hookVars]_vars

C18_Witness ==
    /\ nCtl = 1 /\ Len(chunk) = 2
    /\ scheduledSourcesRef = {1} /\ isSpeaking /\ nextStartTimeRef > 0
    /\ chunk[2].st = "decoding"
    /\ lastStarted.idx = 1

\* C19: whenever isConnected is true the stream, both contexts and both
\* analysers are there (refs set, stream and contexts live), and whenever the
\* hook is idle none of them is.
C19_ConnectedIffResources ==
    /\ isConnected =>
          /\ audioStreamRef # NullRef /\ Held(Stream(audioStreamRef))
          /\ inputContextRef # NullRef /\ Held(InCtx(inputContextRef))
          /\ outputContextRef # NullRef /\ Held(OutCtx(outputContextRef))
          /\ inputAnalyserRef # NullRef /\ outputAnalyserRef # NullRef
    /\ Idle =>
          /\ audioStreamRef = NullRef
          /\ inputContextRef = NullRef /\ outputContextRef = NullRef
          /\ inputAnalyserRef = NullRef /\ outputAnalyserRef = NullRef
          /\ \A k \in Ids :
                ~Held(Stream(k)) /\ ~Held(InCtx(k)) /\ ~Held(OutCtx(k))

\* C20: chunks are started in the order their messages arrived: when a chunk
\* is started and no interrupt or teardown ran since it was issued, the chunk
\* started last before it arrived earlier, so that its start time is smaller.
C20_ArrivalOrder ==
    [][\A m \in Pending :
          (Starts(m) /\ ~chunk[m].dirty /\ lastStarted.idx # 0)
          => (lastStarted.idx < m /\ lastStarted.when < nextStartTimeRef)]_vars

\* an exact fraction lies in [0, 1]
InUnit(q) == 0 <= q.num /\ q.num <= q.den

\* C21: the three band energies render() computes from a spectral snapshot
\* of 256 bins with values 0..255 each lie in [0, 1] after normalization.
C21_BandsInUnit ==
    bands # NoBands =>
        InUnit(bands.nBass) /\ InUnit(bands.nMids) /\ InUnit(bands.nTreble)

\* session j was torn down: a cleanup() ran while the stream acquired with it
\* was the current one
TornDown(j) ==
    sess[j] # "none" /\ Acquired(Stream(j)) /\ ~Held(Stream(j))

\* session k is the current one and was established by a connect() called
\* after session j was torn down: what that call acquired is still held
LaterSession(j, k) ==
    /\ j < k /\ TornDown(j)
    /\ sessionPromiseRef = k /\ sess[k] \in {"connecting", "open"}
    /\ Held(Stream(k)) /\ Held(InCtx(k)) /\ Held(OutCtx(k))

\* a callback of session j is delivered
Callback(j) ==
    \/ OnOpen(j) \/ OnClose(j) \/ OnError(j)
    \/ \E audio \in BOOLEAN, intr \in BOOLEAN : OnMessage(j, audio, intr)

\* C22: a callback of an earlier session delivered after that session was
\* torn down never stops playback, releases a resource or changes the
\* connection state of a later session established by a subsequent connect().
C22_StaleCallbackHarmless ==
    [][\A j \in Ids, k \in Ids :
          (LaterSession(j, k) /\ Callback(j)) =>
              /\ isConnected' = isConnected
              /\ \A r \in DOMAIN rel : rel'[r] = rel[r]
              /\ scheduledSourcesRef \subseteq scheduledSourcesRef'
              /\ \A m \in DOMAIN chunk :
                    chunk[m].st = "playing" => chunk'[m].st = "playing"]_vars

\* the remote sessions that were opened or are being opened and have neither
\* closed nor failed
LiveSessions == {k \in Ids : sess[k] \in {"connecting", "open"}}

\* C23: whatever the sequence of connect() calls, a second one while the
\* first is connecting or open included, there is never more than one
\* unreleased input context, output context, device stream or remote session.
C23_AtMostOneLive ==
    /\ Cardinality({k \in Ids : Held(InCtx(k))}) <= 1
    /\ Cardinality({k \in Ids : Held(OutCtx(k))}) <= 1
    /\ Cardinality({k \in Ids : Held(Stream(k))}) <= 1
    /\ Cardinality(LiveSessions) <= 1

\* C24: when the voice view changes from active to inactive while a session
\* is connected, disconnect() is invoked as part of that change: the effect
\* pass of that change leaves the session disconnected.
C24_InactiveDisconnects ==
    [][(AutoConnectEffect /\ effectDeps = <<TRUE, TRUE>> /\ ~isActive)
          => ~isConnected']_vars

====
